---- MODULE Spec2Model ----
(***************************************************************************)
(* Model of tensorflow_io/core/python/ops/audio_ops.py: decode and         *)
(* decode_mp3 hand the decoded [channels, samples] tensor to _fix_shape,   *)
(* which truncates / zero-pads the sample axis and then truncates /        *)
(* broadcasts the channel axis.  Python control flow is modelled as it     *)
(* runs eagerly (tensor comparisons evaluate to Python booleans).          *)
(***************************************************************************)
EXTENDS Integers, Sequences, FiniteSets, TLC

\* ---- bounds of the model ------------------------------------------------
MaxChannels == 3
MaxSamples  == 2
MaxDesired  == 3
MaxNegative == 2

\* sample values (int16 in the program; 0 is the padding constant)
Vals == {0, 1}

Desired == (0 - MaxNegative)..MaxDesired

Min(a, b) == IF a < b THEN a ELSE b
Max(a, b) == IF a > b THEN a ELSE b

\* ---- tensors ------------------------------------------------------------
\* A rank-2 tensor: its shape and its values (val[i][j], 1-based).
Tensor(r, c, f) == [rows |-> r, cols |-> c, val |-> f]

Shapes == (0..MaxChannels) \X (0..MaxSamples)

Tensors ==
  UNION { { Tensor(s[1], s[2], f) : f \in [1..s[1] -> [1..s[2] -> Vals]] } :
            s \in Shapes }

NoData == Tensor(0, 0, << >>)
NoResult == [none |-> TRUE]

\* Number of elements a Python slice [:stop] keeps of a dimension of size n.
SliceLen(n, stop) == IF stop >= 0 THEN Min(n, stop) ELSE Max(n + stop, 0)

\* data[:, :stop]
SliceCols(m, stop) ==
  LET k == SliceLen(m.cols, stop)
  IN  Tensor(m.rows, k, [i \in 1..m.rows |-> [j \in 1..k |-> m.val[i][j]]])

\* data[:stop, :]
SliceRowsLast(m, stop) ==
  LET k == SliceLen(m.rows, stop)
  IN  Tensor(k, m.cols,
             [i \in 1..k |-> [j \in 1..m.cols |-> m.val[m.rows - k + i][j]]])
SliceRows(m, stop) ==
  LET k == SliceLen(m.rows, stop)
  IN  Tensor(k, m.cols, [i \in 1..k |-> [j \in 1..m.cols |-> m.val[i][j]]])

\* tf.pad(data, [[0, 0], [0, right_pad]], "CONSTANT"): zeros on the right.
PadLeft(m, right_pad) ==
  Tensor(m.rows, m.cols + right_pad,
         [i \in 1..m.rows |-> [j \in 1..(m.cols + right_pad) |->
            IF j <= right_pad THEN 0 ELSE m.val[i][j - right_pad]]])
PadNone(m, right_pad) == m
Pad(m, right_pad) ==
  Tensor(m.rows, m.cols + right_pad,
         [i \in 1..m.rows |-> [j \in 1..(m.cols + right_pad) |->
            IF j <= m.cols THEN m.val[i][j] ELSE 0]])

\* tf.broadcast_to(data, [r, c]): legal when every dimension of data either
\* has the target size or has size 1.
BroadcastStrict(m, r, c) == m.rows = r /\ m.cols = c
BroadcastValid(m, r, c) ==
  /\ (m.rows = r \/ m.rows = 1)
  /\ (m.cols = c \/ m.cols = 1)

BroadcastZeroFill(m, r, c) ==
  Tensor(r, c, [i \in 1..r |-> [j \in 1..c |->
     IF i <= m.rows /\ j <= m.cols THEN m.val[i][j] ELSE 0]])
BroadcastTo(m, r, c) ==
  Tensor(r, c, [i \in 1..r |-> [j \in 1..c |->
     m.val[IF m.rows = 1 THEN 1 ELSE i][IF m.cols = 1 THEN 1 ELSE j]]])

\* ---- _fix_shape, block by block ------------------------------------------
\* `if desired_samples >= 0:`
SamplesRequestedNotMinusOne(desired_samples) == desired_samples # 0 - 1
SamplesRequested(desired_samples) == desired_samples >= 0

\* `if desired_channels >= 0:`
ChannelsRequested(desired_channels) == desired_channels >= 0

\* the sample block: truncate, then pad by right_pad when it is positive
SampleBlock(m, desired_samples, org_smp) ==
  LET t == SliceCols(m, desired_samples)
      right_pad == desired_samples - org_smp
  IN  IF right_pad > 0 THEN Pad(t, right_pad) ELSE t

\* `out_samples = desired_samples if desired_samples >= 0 else org_samples`
OutSamplesOrg(desired_samples, org_smp) == org_smp
OutSamples(desired_samples, org_smp) ==
  IF desired_samples >= 0 THEN desired_samples ELSE org_smp

\* ---- state --------------------------------------------------------------
VARIABLES
  pc,               \* position: idle, samples, channels, broadcast, return,
                    \*           done, error
  op,               \* which public function was called
  input,            \* the tensor the native decoder returned
  data,             \* _fix_shape's local `data`
  desired_channels,
  desired_samples,
  org_samples,      \* org_shape[1]
  out_samples,      \* target sample count handed to broadcast_to
  result            \* what the call returned (NoResult: nothing / raised)

vars == <<pc, op, input, data, desired_channels, desired_samples,
          org_samples, out_samples, result>>

Init ==
  /\ pc = "idle"
  /\ op = "none"
  /\ input = NoData
  /\ data = NoData
  /\ desired_channels = 0 - 1
  /\ desired_samples = 0 - 1
  /\ org_samples = 0
  /\ out_samples = 0
  /\ result = NoResult

\* The call: the native kernel yields some tensor, _fix_shape is entered and
\* reads org_shape[1].
Call(name, samples, dc, ds) ==
  /\ op' = name
  /\ input' = samples
  /\ data' = samples
  /\ desired_channels' = dc
  /\ desired_samples' = ds
  /\ org_samples' = samples.cols
  /\ pc' = "samples"
  /\ UNCHANGED <<out_samples, result>>

decode ==
  /\ pc = "idle"
  /\ \E samples \in Tensors, dc \in Desired, ds \in Desired :
        Call("decode", samples, dc, ds)

decode_mp3 ==
  /\ pc = "idle"
  /\ \E samples \in Tensors, dc \in Desired, ds \in Desired :
        Call("decode_mp3", samples, dc, ds)

\* lines 80-88
SampleAdjust ==
  /\ pc = "samples"
  /\ data' = IF SamplesRequested(desired_samples)
               THEN SampleBlock(data, desired_samples, org_samples)
               ELSE data
  /\ pc' = "channels"
  /\ UNCHANGED <<op, input, desired_channels, desired_samples, org_samples,
                 out_samples, result>>

\* lines 90-95
ChannelTruncate ==
  /\ pc = "channels"
  /\ IF ChannelsRequested(desired_channels)
       THEN /\ out_samples' = OutSamples(desired_samples, org_samples)
            /\ data' = SliceRows(data, desired_channels)
            /\ pc' = "broadcast"
       ELSE /\ pc' = "return"
            /\ UNCHANGED <<out_samples, data>>
  /\ UNCHANGED <<op, input, desired_channels, desired_samples, org_samples,
                 result>>

\* line 98
Broadcast ==
  /\ pc = "broadcast"
  /\ IF BroadcastValid(data, desired_channels, out_samples)
       THEN /\ data' = BroadcastTo(data, desired_channels, out_samples)
            /\ pc' = "return"
       ELSE /\ pc' = "error"
            /\ UNCHANGED data
  /\ UNCHANGED <<op, input, desired_channels, desired_samples, org_samples,
                 out_samples, result>>

\* line 100, and the caller's `return samples, sample_rate`
Return ==
  /\ pc = "return"
  /\ result' = data
  /\ pc' = "done"
  /\ UNCHANGED <<op, input, data, desired_channels, desired_samples,
                 org_samples, out_samples>>

Next ==
  \/ decode
  \/ decode_mp3
  \/ SampleAdjust
  \/ ChannelTruncate
  \/ Broadcast
  \/ Return

Spec == Init /\ [][Next]_vars

TypeOK ==
  /\ pc \in {"idle", "samples", "channels", "broadcast", "return", "done",
             "error"}
  /\ desired_channels \in Desired
  /\ desired_samples \in Desired

\* ---- _fix_shape as a function (lines 75-100) ------------------------------
Ok(d)  == [ok |-> TRUE, data |-> d]
Raised == [ok |-> FALSE, data |-> NoResult]

_fix_shape(d, dc, ds) ==
  LET org == d.cols
      a   == IF SamplesRequested(ds) THEN SampleBlock(d, ds, org) ELSE d
  IN  IF ~ChannelsRequested(dc)
        THEN Ok(a)
        ELSE LET os == OutSamples(ds, org)
                 t  == SliceRows(a, dc)
             IN  IF BroadcastValid(t, dc, os)
                   THEN Ok(BroadcastTo(t, dc, os))
                   ELSE Raised

\* ---- vocabulary of the properties ---------------------------------------
Finished == pc \in {"done", "error"}
Outcome  == IF pc = "done" THEN Ok(result) ELSE Raised

\* the input after the sample-axis adjustment alone
SampleAdjusted ==
  IF desired_samples >= 0
    THEN SampleBlock(input, desired_samples, input.cols)
    ELSE input

\* some sample of the input is not the padding value
HasSignal == \E i \in 1..input.rows : \E j \in 1..input.cols :
                input.val[i][j] # 0

\* the rows of the input are pairwise different
RowsDiffer == \A i, k \in 1..input.rows : i # k => input.val[i] # input.val[k]

\* the machine computes what the function computes
StepsAgreeWithFunction ==
  Finished => Outcome = _fix_shape(input, desired_channels, desired_samples)

\* ---- C1 -------------------------------------------------------------------
\* C1: whenever _fix_shape returns, the output has exactly desired_samples
\* columns if desired_samples >= 0 (input shorter, equal or longer), and
\* exactly the input's sample count if desired_samples < 0.
C1_SampleCount ==
  pc = "done" =>
    result.cols = IF desired_samples >= 0 THEN desired_samples ELSE input.cols

C1_Witness ==
  /\ pc = "done"
  /\ input.rows = 2
  /\ input.cols = 1
  /\ desired_samples = 2
  /\ desired_channels = 2
  /\ result.cols = 2

\* ---- C2 -------------------------------------------------------------------
\* C2: with desired_samples >= 0 and desired_channels < 0 the output keeps
\* the input's rows, column j of the output is column j of the input for
\* j < min(S, desired_samples), and every column from S up to
\* desired_samples is zero in every channel.
C2_TruncateKeepsPrefixPadsZerosRight ==
  (pc = "done" /\ desired_samples >= 0 /\ desired_channels < 0) =>
    /\ result.rows = input.rows
    /\ result.cols = desired_samples
    /\ \A i \in 1..input.rows : \A j \in 1..desired_samples :
         result.val[i][j] = IF j <= input.cols THEN input.val[i][j] ELSE 0

C2_Witness ==
  /\ pc = "done"
  /\ desired_channels < 0
  /\ input.rows = 2
  /\ input.cols = 1
  /\ desired_samples = 3
  /\ input.val[1][1] = 1
  /\ result.val[1] = <<1, 0, 0>>

C4_MonoReplicated ==
  (input.rows = 1 /\ desired_channels >= 1) =>
    /\ pc # "error"
    /\ pc = "done" =>
         /\ result.rows = desired_channels
         /\ result.cols = SampleAdjusted.cols
         /\ \A i \in 1..desired_channels : result.val[i] = SampleAdjusted.val[1]

C4_Witness ==
  /\ pc = "done"
  /\ input.rows = 1
  /\ input.cols = 2
  /\ desired_channels = 3
  /\ HasSignal
  /\ result.rows = 3
  /\ result.val[3] = input.val[1]

\* ---- C5 -------------------------------------------------------------------
\* C5: whenever desired_channels is non-negative and greater than the
\* source's channel count (taken here for sources that have a channel to
\* duplicate), the call returns desired_channels channels, each a copy of a
\* source channel; and every returned output has desired_channels channels
\* if desired_channels >= 0, the input's channel count otherwise.
C5_ChannelsDuplicated ==
  /\ (Finished /\ input.rows >= 1 /\ desired_channels > input.rows) =>
       /\ pc = "done"
       /\ result.rows = desired_channels
       /\ \A i \in 1..result.rows : \E k \in 1..input.rows :
            result.val[i] = SampleAdjusted.val[k]
  /\ pc = "done" =>
       result.rows = IF desired_channels >= 0 THEN desired_channels
                                              ELSE input.rows

\* ---- C6 -------------------------------------------------------------------
\* C6: whenever desired_channels is non-negative and smaller than the
\* source's channel count, every row of the output is source row 0 (as left
\* by the sample adjustment) and no other source channel contributes.
C6_OnlyFirstChannelUsed ==
  (pc = "done" /\ desired_channels >= 0 /\ desired_channels < input.rows) =>
    \A i \in 1..result.rows : result.val[i] = SampleAdjusted.val[1]

\* ---- C7 -------------------------------------------------------------------
\* C7: the call ends in a broadcast error exactly when desired_channels >= 0,
\* the input has fewer channels than desired_channels and does not have
\* exactly one; otherwise it runs to a result.  An error leaves no result,
\* and desired_samples plays no part in the condition.
ExpansionNotFromOneRow ==
  /\ desired_channels >= 0
  /\ input.rows < desired_channels
  /\ input.rows # 1

C8_ZeroSizeNeverRaises ==
  (input.rows >= 1 /\ (desired_channels = 0 \/ desired_samples = 0)) =>
    /\ pc # "error"
    /\ pc = "done" => (result.rows = 0 \/ result.cols = 0)

\* ---- C9 -------------------------------------------------------------------
\* C9: only the sign of a negative argument matters: with both arguments
\* negative the output is the input, and the outcome for a negative
\* desired_samples (desired_channels) is the outcome for -1 in its place,
\* the other argument held fixed.
MinusOneIfNegative(n) == IF n < 0 THEN 0 - 1 ELSE n

C9_OnlySignOfNegativeInspected ==
  Finished =>
    /\ (desired_channels < 0 /\ desired_samples < 0) =>
          (pc = "done" /\ result = input)
    /\ Outcome = _fix_shape(input, desired_channels,
                            MinusOneIfNegative(desired_samples))
    /\ Outcome = _fix_shape(input, MinusOneIfNegative(desired_channels),
                            desired_samples)

C9_Witness ==
  /\ pc = "done"
  /\ desired_samples = 0 - 2
  /\ desired_channels = 0 - 2
  /\ input.rows = 2
  /\ input.cols = 2
  /\ HasSignal
  /\ result = input

\* ---- C10 ------------------------------------------------------------------
\* C10: when the channel step runs, out_samples equals the column count of
\* data at the broadcast, so the broadcast keeps the sample axis and fails
\* only on the channel axis; the outcome is that of adjusting the channels
\* first (desired_samples unconstrained) and the samples afterwards.
ChannelsThenSamples ==
  LET first == _fix_shape(input, desired_channels, 0 - 1)
  IN  IF first.ok THEN _fix_shape(first.data, 0 - 1, desired_samples)
                  ELSE first

C10_BroadcastKeepsSampleAxis ==
  /\ pc = "broadcast" => out_samples = data.cols
  /\ (pc = "error" /\ desired_channels >= 0) =>
        (data.rows # desired_channels /\ data.rows # 1)
  /\ (pc = "done" /\ desired_channels >= 0) =>
        result.cols = SampleAdjusted.cols
  /\ (Finished /\ desired_channels >= 0) => Outcome = ChannelsThenSamples

C10_Witness ==
  /\ pc = "done"
  /\ desired_channels = 3
  /\ input.rows = 1
  /\ input.cols = 1
  /\ desired_samples = 2
  /\ out_samples = 2
  /\ input.val[1][1] = 1
  /\ result.val[3] = <<1, 0>>
====
